---- MODULE Spec2Model ----
(***************************************************************************)
(* Model of the platform pass-through emulator, emulators/pt/platform.c.   *)
(*                                                                         *)
(* One emulated device (edev) of one device-tree node is modelled.  The    *)
(* lifecycle thread runs platform_pt_probe and platform_pt_remove one      *)
(* external call per step, so that the host interrupt handler and the      *)
(* address-space notifier can run between any two of them.  The handler    *)
(* and the notifier run to completion: their invocation stays visible in   *)
(* hirq / evt until it returns, and nothing else runs meanwhile.           *)
(*                                                                         *)
(* The subsystems the emulator calls (host IRQs, device registry, IOMMU,   *)
(* notifier chain, heap) are not part of the file; they are modelled by    *)
(* the resource each call acquires or releases, and every call that can    *)
(* fail does so nondeterministically.                                      *)
(***************************************************************************)
EXTENDS Integers, Sequences, FiniteSets, TLC

\* ------------------------------------------------------------------ bounds
MaxIrqs == 2
MaxOps == 3
MaxEvents == 2
MaxRegions == 2

\* ------------------------------------------------------- program constants
\* sizeof(s->name)
NAME_SIZE == 64
\* sizeof(u32) * 2: one (host irq, trigger type) pair of "host-interrupts"
HOST_IRQ_CELL_BYTES == 8

NULL == "NULL"
VMM_OK == "VMM_OK"
VMM_ENOMEM == "VMM_ENOMEM"
VMM_EOVERFLOW == "VMM_EOVERFLOW"
VMM_EINVALID == "VMM_EINVALID"
VMM_EFAIL == "VMM_EFAIL"
VMM_IRQ_HANDLED == "VMM_IRQ_HANDLED"
NOTIFY_DONE == "NOTIFY_DONE"
NOTIFY_OK == "NOTIFY_OK"
VMM_GUEST_ASPACE_EVENT_INIT == "ASPACE_EVENT_INIT"
VMM_GUEST_ASPACE_EVENT_DEINIT == "ASPACE_EVENT_DEINIT"

\* Errors the external subsystems report (one per subsystem).
DevtreeErr == "VMM_ENOTAVAIL"
HostIrqErr == "VMM_ENOTSUPP"
NotifierErr == "VMM_EEXIST"

Min(a, b) == IF a < b THEN a ELSE b

\* ----------------------------------------------------------- environment
\* Host interrupt lines; line MaxIrqs is never named by a configuration.
Lines == 0..MaxIrqs

\* The pool of (host irq, trigger type, guest irq) triples a node may list.
TriplePool == [k \in 0..(MaxIrqs - 1) |->
                 [host |-> k, type |-> IF k % 2 = 0 THEN 1 ELSE 4, guest |-> 10 + k]]

\* The pool entries a node lists: up to MaxIrqs consecutive entries that start
\* anywhere in the pool and wrap round, so that no line is named twice and
\* index k of the node need not name line k.
TripleSeqs ==
  {[k \in 1..n |-> (start + k - 1) % MaxIrqs] : start \in 0..(MaxIrqs - 1), n \in 0..MaxIrqs}

Guests == {"g0", "g1"}

Chars(c, n) == [k \in 1..n |-> c]

\* guest->name
GuestName(g) == IF g = "g0" THEN <<"g", "0">> ELSE Chars("x", 59)

\* edev->node->name: with it the name of g0 fits s->name and that of g1 does not
NodeNames == {<<"e", "t", "h", "0">>}

\* What the "iommu-device" attribute of the node leads to.
IommuCases == {"none", "absent", "nogroup", "ok"}

\* "host-interrupts" as the flat u32 array the device tree holds.
RECURSIVE HostInterruptsAttr(_)
HostInterruptsAttr(ts) ==
  IF ts = <<>> THEN <<>>
  ELSE <<TriplePool[Head(ts)].host, TriplePool[Head(ts)].type>> \o HostInterruptsAttr(Tail(ts))

InterruptsAttr(ts) == [k \in 1..Len(ts) |-> TriplePool[ts[k]].guest]

Config(g, gname, node, ts, io) ==
  [guest |-> g, guest_name |-> gname, node_name |-> node,
   host_interrupts |-> HostInterruptsAttr(ts),
   interrupts |-> InterruptsAttr(ts),
   iommu |-> io]

\* Names around the capacity of s->name, for the checks of name construction.
EdgeGuestNames == {Chars("x", n) : n \in {2, 59, 62, 63}}
EdgeNodeNames == {Chars("n", n) : n \in {0, 1, 4}}

NameConfigs ==
  {Config("g0", gname, node, <<0>>, "ok") : gname \in EdgeGuestNames, node \in EdgeNodeNames}

Configs ==
  {Config(g, GuestName(g), node, ts, io) : g \in Guests, node \in NodeNames,
                             ts \in TripleSeqs, io \in IommuCases}


\* Guest memory regions the guest may hold when its address space is ready.
VMM_REGION_REAL == "REAL"
VMM_REGION_MEMORY == "MEMORY"
VMM_REGION_ISRAM == "ISRAM"
VMM_REGION_ISHOSTRAM == "ISHOSTRAM"
VMM_IOMMU_READ == "READ"
VMM_IOMMU_WRITE == "WRITE"

RegionPool ==
  <<[flags |-> {VMM_REGION_REAL, VMM_REGION_MEMORY, VMM_REGION_ISRAM, VMM_REGION_ISHOSTRAM},
     gphys_addr |-> 16, hphys_addr |-> 48, phys_size |-> 8],
    [flags |-> {VMM_REGION_REAL, VMM_REGION_MEMORY, VMM_REGION_ISRAM},
     gphys_addr |-> 32, hphys_addr |-> 0, phys_size |-> 4],
    [flags |-> {VMM_REGION_REAL, VMM_REGION_MEMORY, VMM_REGION_ISRAM, VMM_REGION_ISHOSTRAM},
     gphys_addr |-> 64, hphys_addr |-> 80, phys_size |-> 12]>>

\* The region lists a guest may hold: pool regions in address order.
RECURSIVE Pick(_, _)
Pick(q, ids) ==
  IF q = <<>> THEN <<>>
  ELSE IF Len(q) \in ids THEN Append(Pick(SubSeq(q, 1, Len(q) - 1), ids), q[Len(q)])
       ELSE Pick(SubSeq(q, 1, Len(q) - 1), ids)

RegionLists ==
  {Pick(RegionPool, ids) : ids \in {x \in SUBSET (1..Len(RegionPool)) : Cardinality(x) <= MaxRegions}}

\* ---------------------------------------------------------------- state
VARIABLES
  cfg,            \* the guest and device-tree node probe is given
  pc,             \* where the lifecycle thread is in probe / remove
  s,              \* struct platform_pt_state (all zero while not allocated)
  i,              \* probe / remove: u32 i
  irq_reg_count,  \* probe: u32 irq_reg_count
  rc,             \* probe: int rc
  priv,           \* edev->priv
  heap,           \* live vmm_zalloc allocations
  routed,         \* host lines marked routed
  handlers,       \* host lines with platform_pt_routed_irq registered on s
  lineType,       \* trigger type set on each host line (0: never set)
  devRef,         \* vmm_devdrv_ref_device / dref_device calls on the iommu device
  domLive,        \* an IOMMU domain is allocated
  faultPriv,      \* priv of the domain's fault handler
  subscribed,     \* s->nb is on the guest aspace notifier chain
  calls,          \* external calls of the current (or last) probe / remove
  fail,           \* the call that failed in the current (or last) probe
  ret,            \* what the last probe / remove returned
  hirq,           \* the handler invocation in flight
  evt,            \* the notifier invocation in flight
  h2gCount,       \* vmm_devemu_map_host2guest_irq calls issued so far
  mapCount,       \* vmm_iommu_map calls issued so far
  halted,         \* guests halted by vmm_manager_guest_halt
  uaf,            \* a callback ran on an Instance that was already freed
  ops,            \* probe / remove calls made
  evCount,        \* events delivered
  iter            \* the notifier invocation that runs concurrently with the lifecycle thread

lifeVars == <<pc, s, i, irq_reg_count, rc, priv, heap, routed, handlers, lineType,
              devRef, domLive, faultPriv, subscribed, calls, fail, ret, ops>>
envVars == <<hirq, evt, h2gCount, mapCount, halted, uaf, evCount, iter>>
vars == <<cfg, lifeVars, envVars>>

\* vmm_zalloc(sizeof(struct platform_pt_state))
ZeroState ==
  [name |-> <<>>, guest |-> NULL, irq_count |-> 0,
   host_irqs |-> <<>>, host_type_irqs |-> <<>>, guest_irqs |-> <<>>,
   dev |-> NULL, dom |-> NULL]

NoIrq == [irq |-> -1, calls |-> <<>>, ret |-> NULL]
NoEvt == [evt |-> NULL, guest |-> NULL, regions |-> <<>>, ret |-> NULL,
          h2g |-> <<>>, maps |-> <<>>]
NoFail == [step |-> NULL, idx |-> -1]
NoIter == [regions |-> <<>>, next |-> 0, ops |-> -1]
NoRet == [op |-> NULL, rc |-> NULL]

\* Neither callback is running.
Quiet == hirq = NoIrq /\ evt = NoEvt

Call(op, idx, arg) == [op |-> op, idx |-> idx, arg |-> arg]

InitWith(c) ==
  /\ cfg = c
  /\ pc = "idle"
  /\ s = ZeroState
  /\ i = 0
  /\ irq_reg_count = 0
  /\ rc = VMM_OK
  /\ priv = NULL
  /\ heap = {}
  /\ routed = {}
  /\ handlers = {}
  /\ lineType = [l \in Lines |-> 0]
  /\ devRef = [acq |-> 0, rel |-> 0]
  /\ domLive = FALSE
  /\ faultPriv = NULL
  /\ subscribed = FALSE
  /\ calls = <<>>
  /\ fail = NoFail
  /\ ret = NoRet
  /\ hirq = NoIrq
  /\ evt = NoEvt
  /\ h2gCount = 0
  /\ mapCount = 0
  /\ halted = {}
  /\ uaf = FALSE
  /\ ops = 0
  /\ evCount = 0
  /\ iter = NoIter

Init == \E c \in Configs : InitWith(c)

\* ------------------------------------------------------------- strings
\* strlcpy(dst, src, size): dst after the call, and the value returned.
strlcpy(src, size) ==
  [dst |-> SubSeq(src, 1, Min(Len(src), size - 1)), ret |-> Len(src)]

\* strlcat(dst, src, size): dst after the call, and the value returned.
strlcat(dst, src, size) ==
  IF Len(dst) >= size THEN [dst |-> dst, ret |-> size + Len(src)]
  ELSE [dst |-> dst \o SubSeq(src, 1, Min(Len(src), size - Len(dst) - 1)),
        ret |-> Len(dst) + Len(src)]

\* lines 192-194: the three calls that build s->name
BuildName(gname, nname) ==
  LET a == strlcpy(gname, NAME_SIZE)
      b == strlcat(a.dst, <<"/">>, NAME_SIZE)
  IN strlcat(b.dst, nname, NAME_SIZE)

\* lines 194-195: the overflow test on the last strlcat
NameOverflows(r) == r.ret >= NAME_SIZE

\* line 201-202: s->irq_count from the length in bytes of "host-interrupts"
vmm_devtree_attrlen(attr) == Len(attr) * 4
IrqCount(c) == vmm_devtree_attrlen(c.host_interrupts) \div HOST_IRQ_CELL_BYTES


\* ------------------------------------------------------------ probe
Log(op, idx, arg) == calls' = Append(calls, Call(op, idx, arg))

\* goto <label> with rc set, the failing call recorded
FailTo(label, code, step, idx) ==
  /\ rc' = code
  /\ fail' = [step |-> step, idx |-> idx]
  /\ pc' = label

\* lines 270-274: iommu_device after the read of "iommu-device"
iommu_device == IF cfg.iommu = "none" THEN NULL ELSE "iommu-device"

\* the statement after the for loop of lines 227-268
AfterIrqLoop == IF iommu_device # NULL THEN "p_find_dev" ELSE "p_subscribe"

\* lines 186-190: allocate the Instance.  The device emulation framework calls
\* probe for an emulated device that has nothing attached.
probe_zalloc ==
  /\ pc = "idle" /\ Quiet
  /\ priv = NULL
  /\ ops < MaxOps
  /\ ops' = ops + 1
  /\ i' = 0 /\ irq_reg_count' = 0
  /\ \/ /\ heap' = heap \cup {"s"}
        /\ s' = ZeroState
        /\ rc' = VMM_OK
        /\ calls' = <<Call("zalloc_state", -1, -1)>>
        /\ fail' = NoFail
        /\ ret' = NoRet
        /\ pc' = "p_name"
     \/ /\ rc' = VMM_ENOMEM
        /\ calls' = <<>>
        /\ fail' = [step |-> "zalloc_state", idx |-> -1]
        /\ ret' = [op |-> "probe", rc |-> VMM_ENOMEM]
        /\ pc' = "idle"
        /\ UNCHANGED <<heap, s>>
  /\ UNCHANGED <<priv, routed, handlers, lineType, devRef, domLive, faultPriv, subscribed>>
  /\ UNCHANGED <<cfg, envVars>>

\* lines 192-206: build s->name, then set guest, irq_count and the NULL arrays
probe_name ==
  /\ pc = "p_name" /\ Quiet
  /\ LET r == BuildName(cfg.guest_name, cfg.node_name)
     IN IF NameOverflows(r)
        THEN /\ s' = [s EXCEPT !.name = r.dst]
             /\ FailTo("f_freestate", VMM_EOVERFLOW, "name", -1)
        ELSE /\ s' = [s EXCEPT !.name = r.dst, !.guest = cfg.guest,
                               !.irq_count = IrqCount(cfg)]
             /\ pc' = IF IrqCount(cfg) # 0 THEN "p_alloc_hirqs" ELSE AfterIrqLoop
             /\ UNCHANGED <<rc, fail>>
  /\ UNCHANGED <<i, irq_reg_count, priv, heap, routed, handlers, lineType, devRef,
                 domLive, faultPriv, subscribed, calls, ret, ops>>
  /\ UNCHANGED <<cfg, envVars>>

Zeros(n) == [k \in 1..n |-> 0]

\* lines 208-212
probe_alloc_hirqs ==
  /\ pc = "p_alloc_hirqs" /\ Quiet
  /\ \/ /\ s' = [s EXCEPT !.host_irqs = Zeros(s.irq_count)]
        /\ heap' = heap \cup {"host_irqs"}
        /\ Log("zalloc_host_irqs", -1, -1)
        /\ pc' = "p_alloc_htirqs"
        /\ UNCHANGED <<rc, fail>>
     \/ /\ FailTo("f_freestate", VMM_ENOMEM, "zalloc_host_irqs", -1)
        /\ UNCHANGED <<s, heap, calls>>
  /\ UNCHANGED <<i, irq_reg_count, priv, routed, handlers, lineType, devRef,
                 domLive, faultPriv, subscribed, ret, ops>>
  /\ UNCHANGED <<cfg, envVars>>

\* lines 214-218
probe_alloc_htirqs ==
  /\ pc = "p_alloc_htirqs" /\ Quiet
  /\ \/ /\ s' = [s EXCEPT !.host_type_irqs = Zeros(s.irq_count)]
        /\ heap' = heap \cup {"host_type_irqs"}
        /\ Log("zalloc_host_type_irqs", -1, -1)
        /\ pc' = "p_alloc_girqs"
        /\ UNCHANGED <<rc, fail>>
     \/ /\ FailTo("f_free_hirqs", VMM_ENOMEM, "zalloc_host_type_irqs", -1)
        /\ UNCHANGED <<s, heap, calls>>
  /\ UNCHANGED <<i, irq_reg_count, priv, routed, handlers, lineType, devRef,
                 domLive, faultPriv, subscribed, ret, ops>>
  /\ UNCHANGED <<cfg, envVars>>

\* lines 220-227: the third array, then the loop starts at i = 0
probe_alloc_girqs ==
  /\ pc = "p_alloc_girqs" /\ Quiet
  /\ \/ /\ s' = [s EXCEPT !.guest_irqs = Zeros(s.irq_count)]
        /\ heap' = heap \cup {"guest_irqs"}
        /\ Log("zalloc_guest_irqs", -1, -1)
        /\ i' = 0
        /\ pc' = "p_read_hirq"
        /\ UNCHANGED <<rc, fail>>
     \/ /\ FailTo("f_free_htirqs", VMM_ENOMEM, "zalloc_guest_irqs", -1)
        /\ UNCHANGED <<s, heap, calls, i>>
  /\ UNCHANGED <<irq_reg_count, priv, routed, handlers, lineType, devRef,
                 domLive, faultPriv, subscribed, ret, ops>>
  /\ UNCHANGED <<cfg, envVars>>

\* vmm_devtree_read_u32_atindex(node, attr, &out, index): the cell read
ReadU32(attr, index) == attr[index + 1]

\* lines 228-233
probe_read_hirq ==
  /\ pc = "p_read_hirq" /\ Quiet
  /\ \/ /\ s' = [s EXCEPT !.host_irqs[i + 1] = ReadU32(cfg.host_interrupts, i * 2)]
        /\ pc' = "p_read_htirq"
        /\ UNCHANGED <<rc, fail>>
     \/ /\ FailTo("f_cleanupirqs", DevtreeErr, "read_host_irq", i)
        /\ UNCHANGED s
  /\ UNCHANGED <<i, irq_reg_count, priv, heap, routed, handlers, lineType, devRef,
                 domLive, faultPriv, subscribed, calls, ret, ops>>
  /\ UNCHANGED <<cfg, envVars>>

\* lines 235-240
probe_read_htirq ==
  /\ pc = "p_read_htirq" /\ Quiet
  /\ \/ /\ s' = [s EXCEPT !.host_type_irqs[i + 1] = ReadU32(cfg.host_interrupts, i * 2 + 1)]
        /\ pc' = "p_read_girq"
        /\ UNCHANGED <<rc, fail>>
     \/ /\ FailTo("f_cleanupirqs", DevtreeErr, "read_host_type_irq", i)
        /\ UNCHANGED s
  /\ UNCHANGED <<i, irq_reg_count, priv, heap, routed, handlers, lineType, devRef,
                 domLive, faultPriv, subscribed, calls, ret, ops>>
  /\ UNCHANGED <<cfg, envVars>>

\* A loop that goes from the reads straight to the routed claim.
probe_read_girq_noset ==
  /\ pc = "p_read_girq" /\ Quiet
  /\ \/ /\ s' = [s EXCEPT !.guest_irqs[i + 1] = ReadU32(cfg.interrupts, i)]
        /\ pc' = "p_mark_routed"
        /\ UNCHANGED <<rc, fail>>
     \/ /\ FailTo("f_cleanupirqs", DevtreeErr, "read_guest_irq", i)
        /\ UNCHANGED s
  /\ UNCHANGED <<i, irq_reg_count, priv, heap, routed, handlers, lineType, devRef,
                 domLive, faultPriv, subscribed, calls, ret, ops>>
  /\ UNCHANGED <<cfg, envVars>>

\* lines 242-247
probe_read_girq ==
  /\ pc = "p_read_girq" /\ Quiet
  /\ \/ /\ s' = [s EXCEPT !.guest_irqs[i + 1] = ReadU32(cfg.interrupts, i)]
        /\ pc' = "p_set_type"
        /\ UNCHANGED <<rc, fail>>
     \/ /\ FailTo("f_cleanupirqs", DevtreeErr, "read_guest_irq", i)
        /\ UNCHANGED s
  /\ UNCHANGED <<i, irq_reg_count, priv, heap, routed, handlers, lineType, devRef,
                 domLive, faultPriv, subscribed, calls, ret, ops>>
  /\ UNCHANGED <<cfg, envVars>>

\* lines 249-253
probe_set_type ==
  /\ pc = "p_set_type" /\ Quiet
  /\ \/ /\ lineType' = [lineType EXCEPT ![s.host_irqs[i + 1]] = s.host_type_irqs[i + 1]]
        /\ Log("set_type", i, s.host_irqs[i + 1])
        /\ pc' = "p_mark_routed"
        /\ UNCHANGED <<rc, fail>>
     \/ /\ FailTo("f_cleanupirqs", HostIrqErr, "set_type", i)
        /\ UNCHANGED <<lineType, calls>>
  /\ UNCHANGED <<s, i, irq_reg_count, priv, heap, routed, handlers, devRef,
                 domLive, faultPriv, subscribed, ret, ops>>
  /\ UNCHANGED <<cfg, envVars>>

\* lines 255-258
probe_mark_routed ==
  /\ pc = "p_mark_routed" /\ Quiet
  /\ \/ /\ routed' = routed \cup {s.host_irqs[i + 1]}
        /\ Log("mark_routed", i, s.host_irqs[i + 1])
        /\ pc' = "p_register"
        /\ UNCHANGED <<rc, fail>>
     \/ /\ FailTo("f_cleanupirqs", HostIrqErr, "mark_routed", i)
        /\ UNCHANGED <<routed, calls>>
  /\ UNCHANGED <<s, i, irq_reg_count, priv, heap, handlers, lineType, devRef,
                 domLive, faultPriv, subscribed, ret, ops>>
  /\ UNCHANGED <<cfg, envVars>>

\* lines 260-268: install the handler; on failure give the routed claim back;
\* on success count the line and go round the loop
probe_register ==
  /\ pc = "p_register" /\ Quiet
  /\ \/ /\ handlers' = handlers \cup {s.host_irqs[i + 1]}
        /\ Log("register", i, s.host_irqs[i + 1])
        /\ irq_reg_count' = irq_reg_count + 1
        /\ i' = i + 1
        /\ pc' = IF i + 1 < s.irq_count THEN "p_read_hirq" ELSE AfterIrqLoop
        /\ UNCHANGED <<rc, fail, routed>>
     \/ /\ routed' = routed \ {s.host_irqs[i + 1]}
        /\ Log("unmark_routed", i, s.host_irqs[i + 1])
        /\ FailTo("f_cleanupirqs", HostIrqErr, "register", i)
        /\ UNCHANGED <<handlers, irq_reg_count, i>>
  /\ UNCHANGED <<s, priv, heap, lineType, devRef, domLive, faultPriv, subscribed, ret, ops>>
  /\ UNCHANGED <<cfg, envVars>>

\* A probe that leaves through the dref label when the device has no group.
probe_find_dev_dref ==
  /\ pc = "p_find_dev" /\ Quiet
  /\ s' = [s EXCEPT !.dev = IF cfg.iommu = "absent" THEN NULL ELSE "dev"]
  /\ IF cfg.iommu \in {"absent", "nogroup"}
     THEN FailTo("f_dref_dev", VMM_EINVALID,
                 IF cfg.iommu = "absent" THEN "find_device" ELSE "iommu_group", -1)
     ELSE pc' = "p_ref_dev" /\ UNCHANGED <<rc, fail>>
  /\ UNCHANGED <<i, irq_reg_count, priv, heap, routed, handlers, lineType, devRef,
                 domLive, faultPriv, subscribed, calls, ret, ops>>
  /\ UNCHANGED <<cfg, envVars>>

\* lines 275-286: resolve the iommu device; it must exist and be in a group
probe_find_dev ==
  /\ pc = "p_find_dev" /\ Quiet
  /\ s' = [s EXCEPT !.dev = IF cfg.iommu = "absent" THEN NULL ELSE "dev"]
  /\ IF cfg.iommu \in {"absent", "nogroup"}
     THEN FailTo("f_cleanupirqs", VMM_EINVALID,
                 IF cfg.iommu = "absent" THEN "find_device" ELSE "iommu_group", -1)
     ELSE pc' = "p_ref_dev" /\ UNCHANGED <<rc, fail>>
  /\ UNCHANGED <<i, irq_reg_count, priv, heap, routed, handlers, lineType, devRef,
                 domLive, faultPriv, subscribed, calls, ret, ops>>
  /\ UNCHANGED <<cfg, envVars>>

\* line 288
probe_ref_dev ==
  /\ pc = "p_ref_dev" /\ Quiet
  /\ devRef' = [devRef EXCEPT !.acq = @ + 1]
  /\ Log("ref_device", -1, -1)
  /\ pc' = "p_dom_alloc"
  /\ UNCHANGED <<s, i, irq_reg_count, rc, priv, heap, routed, handlers, lineType,
                 domLive, faultPriv, subscribed, fail, ret, ops>>
  /\ UNCHANGED <<cfg, envVars>>

\* lines 290-298: allocate the domain and install the fault handler
probe_dom_alloc ==
  /\ pc = "p_dom_alloc" /\ Quiet
  /\ \/ /\ s' = [s EXCEPT !.dom = "dom"]
        /\ domLive' = TRUE
        /\ faultPriv' = "s"
        /\ Log("domain_alloc", -1, -1)
        /\ pc' = "p_subscribe"
        /\ UNCHANGED <<rc, fail>>
     \/ /\ FailTo("f_dref_dev", VMM_EFAIL, "domain_alloc", -1)
        /\ UNCHANGED <<s, domLive, faultPriv, calls>>
  /\ UNCHANGED <<i, irq_reg_count, priv, heap, routed, handlers, lineType, devRef,
                 subscribed, ret, ops>>
  /\ UNCHANGED <<cfg, envVars>>

\* A probe whose failed subscription leaves the notifier block on the chain.
probe_subscribe_leak ==
  /\ pc = "p_subscribe" /\ Quiet
  /\ subscribed' = TRUE
  /\ \/ /\ Log("register_client", -1, -1)
        /\ pc' = "p_attach"
        /\ UNCHANGED <<rc, fail>>
     \/ /\ FailTo("f_free_dom", NotifierErr, "register_client", -1)
        /\ UNCHANGED calls
  /\ UNCHANGED <<s, i, irq_reg_count, priv, heap, routed, handlers, lineType, devRef,
                 domLive, faultPriv, ret, ops>>
  /\ UNCHANGED <<cfg, envVars>>

\* lines 301-306
probe_subscribe ==
  /\ pc = "p_subscribe" /\ Quiet
  /\ \/ /\ subscribed' = TRUE
        /\ Log("register_client", -1, -1)
        /\ pc' = "p_attach"
        /\ UNCHANGED <<rc, fail>>
     \/ /\ FailTo("f_free_dom", NotifierErr, "register_client", -1)
        /\ UNCHANGED <<subscribed, calls>>
  /\ UNCHANGED <<s, i, irq_reg_count, priv, heap, routed, handlers, lineType, devRef,
                 domLive, faultPriv, ret, ops>>
  /\ UNCHANGED <<cfg, envVars>>

\* A probe that installs the guest-IRQ routings itself.
probe_attach_routes ==
  /\ pc = "p_attach" /\ Quiet
  /\ priv' = "s"
  /\ ret' = [op |-> "probe", rc |-> VMM_OK]
  /\ pc' = "idle"
  /\ h2gCount' = h2gCount + s.irq_count
  /\ UNCHANGED <<s, i, irq_reg_count, rc, heap, routed, handlers, lineType, devRef,
                 domLive, faultPriv, subscribed, calls, fail, ops>>
  /\ UNCHANGED <<cfg, hirq, evt, mapCount, halted, uaf, evCount, iter>>

\* lines 308-310
probe_attach ==
  /\ pc = "p_attach" /\ Quiet
  /\ priv' = "s"
  /\ ret' = [op |-> "probe", rc |-> VMM_OK]
  /\ pc' = "idle"
  /\ UNCHANGED <<s, i, irq_reg_count, rc, heap, routed, handlers, lineType, devRef,
                 domLive, faultPriv, subscribed, calls, fail, ops>>
  /\ UNCHANGED <<cfg, envVars>>


\* ------------------------------------------------- probe: the fail labels
\* A rollback that forgets the domain when the subscription fails.
probe_free_dom_fail_skip ==
  /\ pc = "f_free_dom" /\ Quiet
  /\ pc' = "f_dref_dev"
  /\ UNCHANGED <<s, i, irq_reg_count, rc, priv, heap, routed, handlers, lineType,
                 devRef, domLive, faultPriv, subscribed, calls, fail, ret, ops>>
  /\ UNCHANGED <<cfg, envVars>>

\* lines 312-315, platform_pt_probe_free_dom_fail
probe_free_dom_fail ==
  /\ pc = "f_free_dom" /\ Quiet
  /\ IF s.dom # NULL
     THEN domLive' = FALSE /\ Log("domain_free", -1, -1)
     ELSE UNCHANGED <<domLive, calls>>
  /\ pc' = "f_dref_dev"
  /\ UNCHANGED <<s, i, irq_reg_count, rc, priv, heap, routed, handlers, lineType,
                 devRef, faultPriv, subscribed, fail, ret, ops>>
  /\ UNCHANGED <<cfg, envVars>>

\* A rollback that keeps the device reference.
probe_dref_dev_fail_keep ==
  /\ pc = "f_dref_dev" /\ Quiet
  /\ pc' = "f_cleanupirqs"
  /\ UNCHANGED <<s, i, irq_reg_count, rc, priv, heap, routed, handlers, lineType,
                 devRef, domLive, faultPriv, subscribed, calls, fail, ret, ops>>
  /\ UNCHANGED <<cfg, envVars>>

\* lines 316-319, platform_pt_probe_dref_dev_fail
probe_dref_dev_fail ==
  /\ pc = "f_dref_dev" /\ Quiet
  /\ IF s.dev # NULL
     THEN devRef' = [devRef EXCEPT !.rel = @ + 1] /\ Log("dref_device", -1, -1)
     ELSE UNCHANGED <<devRef, calls>>
  /\ pc' = "f_cleanupirqs"
  /\ UNCHANGED <<s, i, irq_reg_count, rc, priv, heap, routed, handlers, lineType,
                 domLive, faultPriv, subscribed, fail, ret, ops>>
  /\ UNCHANGED <<cfg, envVars>>

\* A rollback loop that runs over every configured line.
CleanupCount_all == s.irq_count

\* line 321: how many lines the rollback loop undoes
CleanupCount == irq_reg_count

\* lines 320-321, platform_pt_probe_cleanupirqs_fail: the loop starts at i = 0
probe_cleanupirqs_fail ==
  /\ pc = "f_cleanupirqs" /\ Quiet
  /\ i' = 0
  /\ pc' = IF 0 < CleanupCount THEN "f_unregister" ELSE "f_free_girqs"
  /\ UNCHANGED <<s, irq_reg_count, rc, priv, heap, routed, handlers, lineType,
                 devRef, domLive, faultPriv, subscribed, calls, fail, ret, ops>>
  /\ UNCHANGED <<cfg, envVars>>

\* line 322
probe_cleanup_unregister ==
  /\ pc = "f_unregister" /\ Quiet
  /\ handlers' = handlers \ {s.host_irqs[i + 1]}
  /\ Log("unregister", i, s.host_irqs[i + 1])
  /\ pc' = "f_unmark"
  /\ UNCHANGED <<s, i, irq_reg_count, rc, priv, heap, routed, lineType,
                 devRef, domLive, faultPriv, subscribed, fail, ret, ops>>
  /\ UNCHANGED <<cfg, envVars>>

\* lines 323-324, then the loop test of line 321
probe_cleanup_unmark ==
  /\ pc = "f_unmark" /\ Quiet
  /\ routed' = routed \ {s.host_irqs[i + 1]}
  /\ Log("unmark_routed", i, s.host_irqs[i + 1])
  /\ i' = i + 1
  /\ pc' = IF i + 1 < CleanupCount THEN "f_unregister" ELSE "f_free_girqs"
  /\ UNCHANGED <<s, irq_reg_count, rc, priv, heap, handlers, lineType,
                 devRef, domLive, faultPriv, subscribed, fail, ret, ops>>
  /\ UNCHANGED <<cfg, envVars>>

\* vmm_free of one of the three arrays, guarded by its pointer
FreeArray(ptr, what) ==
  IF ptr # <<>>
  THEN heap' = heap \ {what} /\ Log("free_" \o what, -1, -1)
  ELSE UNCHANGED <<heap, calls>>

\* lines 325-327
probe_free_girqs ==
  /\ pc = "f_free_girqs" /\ Quiet
  /\ FreeArray(s.guest_irqs, "guest_irqs")
  /\ pc' = "f_free_htirqs"
  /\ UNCHANGED <<s, i, irq_reg_count, rc, priv, routed, handlers, lineType,
                 devRef, domLive, faultPriv, subscribed, fail, ret, ops>>
  /\ UNCHANGED <<cfg, envVars>>

\* lines 328-331, platform_pt_probe_freehtirqs_fail
probe_freehtirqs_fail ==
  /\ pc = "f_free_htirqs" /\ Quiet
  /\ FreeArray(s.host_type_irqs, "host_type_irqs")
  /\ pc' = "f_free_hirqs"
  /\ UNCHANGED <<s, i, irq_reg_count, rc, priv, routed, handlers, lineType,
                 devRef, domLive, faultPriv, subscribed, fail, ret, ops>>
  /\ UNCHANGED <<cfg, envVars>>

\* lines 332-335, platform_pt_probe_freehirqs_fail
probe_freehirqs_fail ==
  /\ pc = "f_free_hirqs" /\ Quiet
  /\ FreeArray(s.host_irqs, "host_irqs")
  /\ pc' = "f_freestate"
  /\ UNCHANGED <<s, i, irq_reg_count, rc, priv, routed, handlers, lineType,
                 devRef, domLive, faultPriv, subscribed, fail, ret, ops>>
  /\ UNCHANGED <<cfg, envVars>>

\* lines 336-339, platform_pt_probe_freestate_fail and platform_pt_probe_fail
probe_freestate_fail ==
  /\ pc = "f_freestate" /\ Quiet
  /\ heap' = heap \ {"s"}
  /\ s' = ZeroState
  /\ Log("free_state", -1, -1)
  /\ ret' = [op |-> "probe", rc |-> rc]
  /\ pc' = "idle"
  /\ UNCHANGED <<i, irq_reg_count, rc, priv, routed, handlers, lineType,
                 devRef, domLive, faultPriv, subscribed, fail, ops>>
  /\ UNCHANGED <<cfg, envVars>>

\* ------------------------------------------------------------ remove
\* A remove without the test of edev->priv.
remove_nocheck ==
  /\ pc = "idle" /\ Quiet
  /\ ops < MaxOps
  /\ priv = NULL
  /\ ops' = ops + 1
  /\ subscribed' = FALSE
  /\ calls' = <<Call("unregister_client", -1, -1)>>
  /\ fail' = NoFail
  /\ ret' = [op |-> "remove", rc |-> VMM_OK]
  /\ UNCHANGED <<pc, s, i, irq_reg_count, rc, priv, heap, routed, handlers, lineType,
                 devRef, domLive, faultPriv>>
  /\ UNCHANGED <<cfg, envVars>>

\* lines 345-349: nothing attached
remove_nothing ==
  /\ pc = "idle" /\ Quiet
  /\ ops < MaxOps
  /\ priv = NULL
  /\ ops' = ops + 1
  /\ calls' = <<>>
  /\ fail' = NoFail
  /\ ret' = [op |-> "remove", rc |-> VMM_EFAIL]
  /\ UNCHANGED <<pc, s, i, irq_reg_count, rc, priv, heap, routed, handlers, lineType,
                 devRef, domLive, faultPriv, subscribed>>
  /\ UNCHANGED <<cfg, envVars>>

\* A remove that leaves the notifier block on the chain.
remove_keep_subscription ==
  /\ pc = "idle" /\ Quiet
  /\ ops < MaxOps
  /\ priv # NULL
  /\ ops' = ops + 1
  /\ calls' = <<>>
  /\ fail' = NoFail
  /\ ret' = NoRet
  /\ pc' = "r_free_dom"
  /\ UNCHANGED <<s, i, irq_reg_count, rc, priv, heap, routed, handlers, lineType,
                 devRef, domLive, faultPriv, subscribed>>
  /\ UNCHANGED <<cfg, envVars>>

\* lines 345-351: an Instance is attached; leave the notifier chain
remove_unsubscribe ==
  /\ pc = "idle" /\ Quiet
  /\ ops < MaxOps
  /\ priv # NULL
  /\ ops' = ops + 1
  /\ subscribed' = FALSE
  /\ calls' = <<Call("unregister_client", -1, -1)>>
  /\ fail' = NoFail
  /\ ret' = NoRet
  /\ pc' = "r_free_dom"
  /\ UNCHANGED <<s, i, irq_reg_count, rc, priv, heap, routed, handlers, lineType,
                 devRef, domLive, faultPriv>>
  /\ UNCHANGED <<cfg, envVars>>

\* lines 352-354
remove_free_dom ==
  /\ pc = "r_free_dom" /\ Quiet
  /\ IF s.dom # NULL
     THEN domLive' = FALSE /\ Log("domain_free", -1, -1)
     ELSE UNCHANGED <<domLive, calls>>
  /\ pc' = "r_dref_dev"
  /\ UNCHANGED <<s, i, irq_reg_count, rc, priv, heap, routed, handlers, lineType,
                 devRef, faultPriv, subscribed, fail, ret, ops>>
  /\ UNCHANGED <<cfg, envVars>>

\* A remove loop that stops one line short.
RemoveCount_short == s.irq_count - 1

\* line 358: how many lines remove undoes
RemoveCount == s.irq_count

\* lines 355-358: release the device, then the loop starts at i = 0
remove_dref_dev ==
  /\ pc = "r_dref_dev" /\ Quiet
  /\ IF s.dev # NULL
     THEN devRef' = [devRef EXCEPT !.rel = @ + 1] /\ Log("dref_device", -1, -1)
     ELSE UNCHANGED <<devRef, calls>>
  /\ i' = 0
  /\ pc' = IF 0 < RemoveCount THEN "r_unregister" ELSE "r_free_girqs"
  /\ UNCHANGED <<s, irq_reg_count, rc, priv, heap, routed, handlers, lineType,
                 domLive, faultPriv, subscribed, fail, ret, ops>>
  /\ UNCHANGED <<cfg, envVars>>

\* A remove that releases the routed claims and leaves the handlers.
remove_unregister_skip ==
  /\ pc = "r_unregister" /\ Quiet
  /\ pc' = "r_unmark"
  /\ UNCHANGED <<s, i, irq_reg_count, rc, priv, heap, routed, handlers, lineType,
                 devRef, domLive, faultPriv, subscribed, calls, fail, ret, ops>>
  /\ UNCHANGED <<cfg, envVars>>

\* line 359
remove_unregister ==
  /\ pc = "r_unregister" /\ Quiet
  /\ handlers' = handlers \ {s.host_irqs[i + 1]}
  /\ Log("unregister", i, s.host_irqs[i + 1])
  /\ pc' = "r_unmark"
  /\ UNCHANGED <<s, i, irq_reg_count, rc, priv, heap, routed, lineType,
                 devRef, domLive, faultPriv, subscribed, fail, ret, ops>>
  /\ UNCHANGED <<cfg, envVars>>

\* lines 360-361, then the loop test of line 358
remove_unmark ==
  /\ pc = "r_unmark" /\ Quiet
  /\ routed' = routed \ {s.host_irqs[i + 1]}
  /\ Log("unmark_routed", i, s.host_irqs[i + 1])
  /\ i' = i + 1
  /\ pc' = IF i + 1 < RemoveCount THEN "r_unregister" ELSE "r_free_girqs"
  /\ UNCHANGED <<s, irq_reg_count, rc, priv, heap, handlers, lineType,
                 devRef, domLive, faultPriv, subscribed, fail, ret, ops>>
  /\ UNCHANGED <<cfg, envVars>>

\* lines 362-364
remove_free_girqs ==
  /\ pc = "r_free_girqs" /\ Quiet
  /\ FreeArray(s.guest_irqs, "guest_irqs")
  /\ pc' = "r_free_htirqs"
  /\ UNCHANGED <<s, i, irq_reg_count, rc, priv, routed, handlers, lineType,
                 devRef, domLive, faultPriv, subscribed, fail, ret, ops>>
  /\ UNCHANGED <<cfg, envVars>>

\* lines 365-367
remove_free_htirqs ==
  /\ pc = "r_free_htirqs" /\ Quiet
  /\ FreeArray(s.host_type_irqs, "host_type_irqs")
  /\ pc' = "r_free_hirqs"
  /\ UNCHANGED <<s, i, irq_reg_count, rc, priv, routed, handlers, lineType,
                 devRef, domLive, faultPriv, subscribed, fail, ret, ops>>
  /\ UNCHANGED <<cfg, envVars>>

\* lines 368-370
remove_free_hirqs ==
  /\ pc = "r_free_hirqs" /\ Quiet
  /\ FreeArray(s.host_irqs, "host_irqs")
  /\ pc' = "r_free_state"
  /\ UNCHANGED <<s, i, irq_reg_count, rc, priv, routed, handlers, lineType,
                 devRef, domLive, faultPriv, subscribed, fail, ret, ops>>
  /\ UNCHANGED <<cfg, envVars>>

\* lines 371-375: free the Instance, clear the slot, return
remove_free_state ==
  /\ pc = "r_free_state" /\ Quiet
  /\ heap' = heap \ {"s"}
  /\ s' = ZeroState
  /\ Log("free_state", -1, -1)
  /\ priv' = NULL
  /\ ret' = [op |-> "remove", rc |-> VMM_OK]
  /\ pc' = "idle"
  /\ UNCHANGED <<i, irq_reg_count, rc, routed, handlers, lineType,
                 devRef, domLive, faultPriv, subscribed, fail, ops>>
  /\ UNCHANGED <<cfg, envVars>>


\* ------------------------------------------------- host interrupt handler
\* lines 66-73: the indices of the table that name host line h
Matches(h) == {k \in 0..(s.irq_count - 1) : s.host_irqs[k + 1] = h}

\* the index the scan stops at
FirstMatch(h) == CHOOSE k \in Matches(h) : \A m \in Matches(h) : k <= m

\* A handler that raises the line before it lowers it.
HandlerLevels_swapped == <<1, 0>>

\* lines 81 and 90: the levels driven on the guest line, in order
HandlerLevels == <<0, 1>>

\* lines 78-94: the vmm_devemu_emulate_irq calls of one invocation
EmulateCalls(h, rcs) ==
  IF Matches(h) = {} THEN <<>>
  ELSE [k \in 1..Len(HandlerLevels) |->
          [guest |-> s.guest, irq |-> s.guest_irqs[FirstMatch(h) + 1],
           level |-> HandlerLevels[k], rc |-> rcs[k]]]

\* A handler that reports an unknown line as not its own.
HandlerReturn_none(h) == IF Matches(h) = {} THEN "VMM_IRQ_NONE" ELSE VMM_IRQ_HANDLED

\* line 97
HandlerReturn(h) == VMM_IRQ_HANDLED

\* lines 59-98, platform_pt_routed_irq(irq, dev = s): called for a line the handler
\* is registered on, or for any line while the Instance is attached
platform_pt_routed_irq(h) ==
  /\ Quiet
  /\ h \in handlers \/ (priv = "s" /\ pc = "idle")
  /\ \E r0, r1 \in {VMM_OK, VMM_EFAIL} :
       hirq' = [irq |-> h, calls |-> EmulateCalls(h, <<r0, r1>>), ret |-> HandlerReturn(h)]
  /\ uaf' = (uaf \/ "s" \notin heap)
  /\ UNCHANGED <<cfg, lifeVars, evt, h2gCount, mapCount, halted, evCount, iter>>

\* the handler returns to the interrupted context
irq_return ==
  /\ hirq # NoIrq
  /\ hirq' = NoIrq
  /\ UNCHANGED <<cfg, lifeVars, evt, h2gCount, mapCount, halted, uaf, evCount, iter>>

\* ------------------------------------------------------ IOMMU fault
\* The fault addresses and flags the IOMMU may report.
FaultAddrs == {0, 16, 4096}
FaultFlags == {0, 1, 2}

\* A fault handler that halts every guest.
platform_pt_fault_all(iova, flags) ==
  /\ Quiet
  /\ domLive /\ faultPriv = "s"
  /\ s.guest \notin halted
  /\ halted' = halted \cup Guests
  /\ uaf' = (uaf \/ "s" \notin heap)
  /\ UNCHANGED <<cfg, lifeVars, hirq, evt, h2gCount, mapCount, evCount, iter>>

\* lines 106-120, platform_pt_fault(dom, dev, iova, flags, priv = s): iova and
\* flags are only printed; a guest that is halted raises no further fault
platform_pt_fault(iova, flags) ==
  /\ Quiet
  /\ domLive /\ faultPriv = "s"
  /\ s.guest \notin halted
  /\ halted' = halted \cup {s.guest}
  /\ uaf' = (uaf \/ "s" \notin heap)
  /\ UNCHANGED <<cfg, lifeVars, hirq, evt, h2gCount, mapCount, evCount, iter>>

\* ------------------------------------------------- aspace notification
VMM_REGION_GPHYS_START(reg) == reg.gphys_addr
VMM_REGION_GPHYS_END(reg) == reg.gphys_addr + reg.phys_size
VMM_REGION_HPHYS_START(reg) == reg.hphys_addr

\* A mapping whose length is the region's end address.
platform_pt_iter_end(reg) ==
  [dom |-> s.dom,
   iova |-> VMM_REGION_GPHYS_START(reg),
   paddr |-> VMM_REGION_HPHYS_START(reg),
   size |-> VMM_REGION_GPHYS_END(reg),
   prot |-> {VMM_IOMMU_READ, VMM_IOMMU_WRITE}]

\* lines 122-134, platform_pt_iter: the vmm_iommu_map call for one region
platform_pt_iter(reg) ==
  [dom |-> s.dom,
   iova |-> VMM_REGION_GPHYS_START(reg),
   paddr |-> VMM_REGION_HPHYS_START(reg),
   size |-> VMM_REGION_GPHYS_END(reg) - VMM_REGION_GPHYS_START(reg),
   prot |-> {VMM_IOMMU_READ, VMM_IOMMU_WRITE}]

\* lines 167-170: the flags a region must carry
IterFlags == {VMM_REGION_REAL, VMM_REGION_MEMORY, VMM_REGION_ISRAM, VMM_REGION_ISHOSTRAM}

\* vmm_guest_iterate_region(guest, flags, func, priv): func on every region of
\* the guest that carries all of flags, in list order
RECURSIVE vmm_guest_iterate_region(_, _)
vmm_guest_iterate_region(regs, flags) ==
  IF regs = <<>> THEN <<>>
  ELSE (IF flags \subseteq Head(regs).flags THEN <<platform_pt_iter(Head(regs))>> ELSE <<>>)
       \o vmm_guest_iterate_region(Tail(regs), flags)

\* A notifier without the filter on the guest.
EventMatches_anyguest(e, g) == e = VMM_GUEST_ASPACE_EVENT_INIT

\* lines 148-155: the two filters
EventMatches(e, g) == e = VMM_GUEST_ASPACE_EVENT_INIT /\ s.guest = g

\* A routing loop that stops one index short.
Host2GuestCalls_short ==
  [k \in 1..(s.irq_count - 1) |->
     [guest |-> s.guest, guest_irq |-> s.guest_irqs[k], host_irq |-> s.host_irqs[k]]]

\* lines 157-162: the vmm_devemu_map_host2guest_irq calls
Host2GuestCalls ==
  [k \in 1..s.irq_count |->
     [guest |-> s.guest, guest_irq |-> s.guest_irqs[k], host_irq |-> s.host_irqs[k]]]

\* lines 164-172: the vmm_iommu_map calls
MapCalls(regs) ==
  IF s.dom # NULL THEN vmm_guest_iterate_region(regs, IterFlags) ELSE <<>>

\* lines 136-175, platform_pt_guest_aspace_notification(nb, evt, data), called by
\* the notifier chain while s->nb is on it; regs are the guest's regions
platform_pt_guest_aspace_notification(e, g, regs) ==
  /\ Quiet
  /\ subscribed
  /\ evCount < MaxEvents
  /\ evCount' = evCount + 1
  /\ IF EventMatches(e, g)
     THEN /\ evt' = [evt |-> e, guest |-> g, regions |-> regs, ret |-> NOTIFY_OK,
                     h2g |-> Host2GuestCalls, maps |-> MapCalls(regs)]
          /\ h2gCount' = h2gCount + Len(Host2GuestCalls)
          /\ mapCount' = mapCount + Len(MapCalls(regs))
     ELSE /\ evt' = [evt |-> e, guest |-> g, regions |-> regs, ret |-> NOTIFY_DONE,
                     h2g |-> <<>>, maps |-> <<>>]
          /\ UNCHANGED <<h2gCount, mapCount>>
  /\ uaf' = (uaf \/ "s" \notin heap)
  /\ UNCHANGED <<cfg, lifeVars, hirq, halted, iter>>

\* the notifier returns to the chain
notify_return ==
  /\ evt # NoEvt
  /\ evt' = NoEvt
  /\ UNCHANGED <<cfg, lifeVars, hirq, h2gCount, mapCount, halted, uaf, evCount, iter>>

EventKinds == {VMM_GUEST_ASPACE_EVENT_INIT, VMM_GUEST_ASPACE_EVENT_DEINIT}

\* ------------------------------ the notifier beside the lifecycle thread
\* The file takes no lock: the notifier runs on the thread of the event source
\* and the lifecycle thread may run between any two of its calls.  Here one
\* invocation for a matching event is taken call by call; iter holds the
\* regions vmm_guest_iterate_region still has to hand to platform_pt_iter.

\* lines 136-172: the filters pass, the routing loop runs, s->dom is tested
\* and the iteration over the qualifying regions starts
aspace_notification_begin(e, g, regs) ==
  /\ Quiet /\ iter = NoIter
  /\ subscribed
  /\ evCount < MaxEvents
  /\ EventMatches(e, g)
  /\ evCount' = evCount + 1
  /\ h2gCount' = h2gCount + Len(Host2GuestCalls)
  /\ iter' = IF s.dom # NULL
             THEN [regions |-> SelectSeq(regs, LAMBDA r : IterFlags \subseteq r.flags),
                   next |-> 1, ops |-> ops]
             ELSE NoIter
  /\ uaf' = (uaf \/ "s" \notin heap)
  /\ UNCHANGED <<cfg, lifeVars, hirq, evt, mapCount, halted>>

\* lines 122-134: platform_pt_iter for the next region reads s->dom and calls
\* vmm_iommu_map with it
aspace_notification_iter ==
  /\ iter.next \in 1..Len(iter.regions)
  /\ mapCount' = mapCount + 1
  /\ iter' = [iter EXCEPT !.next = @ + 1]
  /\ uaf' = (uaf \/ "s" \notin heap)
  /\ UNCHANGED <<cfg, lifeVars, hirq, evt, h2gCount, halted, evCount>>

\* lines 172-174: the iteration is over, NOTIFY_OK
aspace_notification_end ==
  /\ iter.next > Len(iter.regions)
  /\ iter' = NoIter
  /\ UNCHANGED <<cfg, lifeVars, hirq, evt, h2gCount, mapCount, halted, uaf, evCount>>

\* -------------------------------------- probe of a device that is attached
\* platform_pt_probe has no test of edev->priv (lines 177-190): called for a
\* device that already has an Instance attached it builds a second one from
\* the same node and, when it succeeds, stores it over the first (line 308).
\* The first Instance and its arrays stay allocated with nothing referring to them.
Orphan(a) == "orphan_" \o a

\* The calls of probe that can fail for a node a probe has succeeded on before:
\* the failing step, its index, its error and how many lines the probe has
\* unmarked again when it returns.
ProbeAgainFailures ==
  {[step |-> "zalloc_state", idx |-> -1, code |-> VMM_ENOMEM, unmarked |-> 0]}
  \cup (IF s.irq_count = 0 THEN {} ELSE
          {[step |-> a, idx |-> -1, code |-> VMM_ENOMEM, unmarked |-> 0] :
             a \in {"zalloc_host_irqs", "zalloc_host_type_irqs", "zalloc_guest_irqs"}})
  \cup {[step |-> a, idx |-> k, code |-> DevtreeErr, unmarked |-> k] :
          a \in {"read_host_irq", "read_host_type_irq", "read_guest_irq"},
          k \in 0..(s.irq_count - 1)}
  \cup {[step |-> a, idx |-> k, code |-> HostIrqErr, unmarked |-> k] :
          a \in {"set_type", "mark_routed"}, k \in 0..(s.irq_count - 1)}
  \cup {[step |-> "register", idx |-> k, code |-> HostIrqErr, unmarked |-> k + 1] :
          k \in 0..(s.irq_count - 1)}
  \cup (IF s.dom = NULL THEN {} ELSE
          {[step |-> "domain_alloc", idx |-> -1, code |-> VMM_EFAIL, unmarked |-> s.irq_count]})
  \cup {[step |-> "register_client", idx |-> -1, code |-> NotifierErr, unmarked |-> s.irq_count]}

\* lines 177-340, platform_pt_probe called while edev->priv is set, as one step.
\* The node is the same, so the second Instance holds what the first holds.
platform_pt_probe_attached ==
  /\ pc = "idle" /\ Quiet
  /\ priv # NULL
  /\ ops < MaxOps
  /\ ops' = ops + 1
  /\ calls' = <<>>
  /\ \/ /\ heap' = heap \cup {Orphan(a) : a \in heap}
        /\ devRef' = IF s.dev # NULL THEN [devRef EXCEPT !.acq = @ + 1] ELSE devRef
        /\ fail' = NoFail
        /\ ret' = [op |-> "probe", rc |-> VMM_OK]
        /\ UNCHANGED <<rc, routed>>
     \/ \E f \in ProbeAgainFailures :
          /\ routed' = routed \ {s.host_irqs[k] : k \in 1..f.unmarked}
          /\ devRef' = IF s.dev # NULL /\ f.step \in {"domain_alloc", "register_client"}
                       THEN [acq |-> devRef.acq + 1, rel |-> devRef.rel + 1]
                       ELSE devRef
          /\ rc' = f.code
          /\ fail' = [step |-> f.step, idx |-> f.idx]
          /\ ret' = [op |-> "probe", rc |-> f.code]
          /\ UNCHANGED heap
  /\ UNCHANGED <<pc, s, i, irq_reg_count, priv, handlers, lineType, domLive, faultPriv,
                 subscribed>>
  /\ UNCHANGED <<cfg, envVars>>

\* ------------------------------------------------------ specification
\* The lifecycle thread: the steps of platform_pt_probe and platform_pt_remove.
Lifecycle ==
  \/ probe_zalloc
  \/ probe_name
  \/ probe_alloc_hirqs
  \/ probe_alloc_htirqs
  \/ probe_alloc_girqs
  \/ probe_read_hirq
  \/ probe_read_htirq
  \/ probe_read_girq
  \/ probe_set_type
  \/ probe_mark_routed
  \/ probe_register
  \/ probe_find_dev
  \/ probe_ref_dev
  \/ probe_dom_alloc
  \/ probe_subscribe
  \/ probe_attach
  \/ probe_free_dom_fail
  \/ probe_dref_dev_fail
  \/ probe_cleanupirqs_fail
  \/ probe_cleanup_unregister
  \/ probe_cleanup_unmark
  \/ probe_free_girqs
  \/ probe_freehtirqs_fail
  \/ probe_freehirqs_fail
  \/ probe_freestate_fail
  \/ remove_nothing
  \/ remove_unsubscribe
  \/ remove_free_dom
  \/ remove_dref_dev
  \/ remove_unregister
  \/ remove_unmark
  \/ remove_free_girqs
  \/ remove_free_htirqs
  \/ remove_free_hirqs
  \/ remove_free_state

\* The emulator: the lifecycle thread and the three callbacks.
Next ==
  \/ Lifecycle
  \/ \E h \in Lines : platform_pt_routed_irq(h)
  \/ irq_return
  \/ \E iova \in FaultAddrs, flags \in FaultFlags : platform_pt_fault(iova, flags)
  \/ \E e \in EventKinds, g \in Guests, regs \in RegionLists :
       platform_pt_guest_aspace_notification(e, g, regs)
  \/ notify_return

Spec == Init /\ [][Next]_vars

\* The same program, probed with names around the capacity of s->name.
InitName == \E c \in NameConfigs : InitWith(c)
SpecName == InitName /\ [][Next]_vars

\* The same program under a framework that may call probe for a device that
\* has an Instance attached.
NextReprobe == Next \/ platform_pt_probe_attached
SpecReprobe == Init /\ [][NextReprobe]_vars

\* The lifecycle thread with notifier invocations that run beside it, call by
\* call; the interrupt and fault handlers are left out.
NextConc ==
  \/ Lifecycle
  \/ \E e \in EventKinds, g \in Guests, regs \in RegionLists :
       aspace_notification_begin(e, g, regs)
  \/ aspace_notification_iter
  \/ aspace_notification_end
SpecConc == Init /\ [][NextConc]_vars


\* ================================================================ claims
ProbeFailed == pc = "idle" /\ ret.op = "probe" /\ ret.rc # VMM_OK
ProbeOk == pc = "idle" /\ ret.op = "probe" /\ ret.rc = VMM_OK
RemoveOk == pc = "idle" /\ ret.op = "remove" /\ ret.rc = VMM_OK
RemoveFailed == pc = "idle" /\ ret.op = "remove" /\ ret.rc # VMM_OK

Arrays == {"host_irqs", "host_type_irqs", "guest_irqs"}

\* The node's configuration, read off the device tree rather than off s.
ConfigCount == Len(cfg.interrupts)
ConfigHostIrq(k) == cfg.host_interrupts[2 * k + 1]
ConfigGuestIrq(k) == cfg.interrupts[k + 1]
ConfigLines == {ConfigHostIrq(k) : k \in 0..(ConfigCount - 1)}

\* C1: when probe returns an error, whatever call failed, nothing is left: no
\* host line routed, no handler registered, no array and no Instance allocated,
\* no device reference held, no domain, no subscription, and edev->priv not set.
C1_FailedProbeLeavesNothing ==
  ProbeFailed =>
    /\ routed = {}
    /\ handlers = {}
    /\ heap = {}
    /\ devRef.acq = devRef.rel
    /\ ~domLive
    /\ ~subscribed
    /\ priv = NULL

\* A probe of two lines with an iommu device whose last step, the subscription, failed.
C1_Witness ==
  /\ ProbeFailed
  /\ fail.step = "register_client"
  /\ ConfigCount = 2
  /\ cfg.iommu = "ok"

\* C2: after a successful probe of N triples exactly the N configured host
\* lines are routed and carry the handler; after the remove that follows, none.
C2_ProbeRegistersAllRemoveNone ==
  /\ ProbeOk =>
       /\ routed = ConfigLines
       /\ handlers = ConfigLines
       /\ Cardinality(routed \cap handlers) = ConfigCount
  /\ RemoveOk => routed = {} /\ handlers = {}

\* A remove that succeeded on a node with two lines.
C2_Witness == RemoveOk /\ ConfigCount = 2

IsUndo(c) == c.op \in {"unregister", "unmark_routed"}

\* C3: when set_type, mark_routed or register first fails at index k, the
\* rollback undoes the indices 0..k-1, each once and in order (handler removed,
\* then routed claim released), and no index from k on; afterwards no line is
\* routed or registered and no array is allocated.  (A failed register has
\* given back the routed claim of line k itself before the rollback starts.)
C3_RollbackUndoesExactlyRegistered ==
  (ProbeFailed /\ fail.step \in {"set_type", "mark_routed", "register"}) =>
    LET undo == SelectSeq(calls, IsUndo)
        rollback == IF fail.step = "register" THEN Tail(undo) ELSE undo
    IN /\ Len(rollback) = 2 * fail.idx
       /\ \A k \in 0..(fail.idx - 1) :
            /\ rollback[2 * k + 1] = Call("unregister", k, ConfigHostIrq(k))
            /\ rollback[2 * k + 2] = Call("unmark_routed", k, ConfigHostIrq(k))
       /\ fail.step = "register" =>
            Head(undo) = Call("unmark_routed", fail.idx, ConfigHostIrq(fail.idx))
       /\ routed = {}
       /\ handlers = {}
       /\ heap \cap Arrays = {}

\* The handler install failed on the second line, after the first was registered.
C3_Witness == ProbeFailed /\ fail.step = "register" /\ fail.idx = 1


\* The handler / the notifier is entered in this step.
HandlerEntered == hirq = NoIrq /\ hirq' # NoIrq
NotifierEntered == evt = NoEvt /\ evt' # NoEvt

\* C4: a firing of a host line configured for guest line g makes exactly two
\* guest-level calls, level 0 then level 1, both on g of the owning guest,
\* whatever the two calls return.
C4_FiringLowersThenRaises ==
  \A k \in 0..(ConfigCount - 1) :
    (hirq # NoIrq /\ hirq.irq = ConfigHostIrq(k)) =>
      /\ Len(hirq.calls) = 2
      /\ \A j \in 1..2 : /\ hirq.calls[j].irq = ConfigGuestIrq(k)
                         /\ hirq.calls[j].guest = cfg.guest
      /\ hirq.calls[1].level = 0
      /\ hirq.calls[2].level = 1

\* The second configured line fires while probe is still running, and both
\* guest-level calls report failure.
C4_Witness ==
  /\ hirq # NoIrq
  /\ ConfigCount = 2 /\ hirq.irq = ConfigHostIrq(1)
  /\ pc # "idle"
  /\ hirq.calls[1].rc = VMM_EFAIL /\ hirq.calls[2].rc = VMM_EFAIL

\* C5: every invocation of the handler reports "handled"; for a line that is in
\* no entry of the table it makes no guest-level call, and no invocation changes
\* the Instance.
C5_HandlerAlwaysHandled ==
  [][HandlerEntered =>
       /\ hirq'.ret = VMM_IRQ_HANDLED
       /\ s' = s
       /\ (\A k \in 1..s.irq_count : s.host_irqs[k] # hirq'.irq) => hirq'.calls = <<>>]_vars

\* A line that is in no entry of a table of two fires on an attached Instance.
C5_Witness ==
  /\ hirq # NoIrq
  /\ s.irq_count = 2
  /\ \A k \in 1..s.irq_count : s.host_irqs[k] # hirq.irq
  /\ hirq.calls = <<>>
  /\ hirq.ret = VMM_IRQ_HANDLED

Qualifies(reg) ==
  {VMM_REGION_REAL, VMM_REGION_MEMORY, VMM_REGION_ISRAM, VMM_REGION_ISHOSTRAM} \subseteq reg.flags

EventIsOurs == evt.evt = VMM_GUEST_ASPACE_EVENT_INIT /\ evt.guest = cfg.guest

\* C6: a matching aspace-init event registers the N routings guest_irqs[i] to
\* host_irqs[i]; with a domain it maps each real, RAM-backed, host-RAM-backed
\* region once (iova its guest-physical start, paddr its host-physical start,
\* size its guest-physical length, read+write); without a domain it maps nothing.
C6_MatchingEventMapsAll ==
  (evt # NoEvt /\ EventIsOurs) =>
    /\ Len(evt.h2g) = ConfigCount
    /\ \A k \in 0..(ConfigCount - 1) :
         evt.h2g[k + 1] = [guest |-> cfg.guest, guest_irq |-> ConfigGuestIrq(k),
                           host_irq |-> ConfigHostIrq(k)]
    /\ LET q == SelectSeq(evt.regions, Qualifies)
       IN IF domLive
          THEN /\ Len(evt.maps) = Len(q)
               /\ \A j \in 1..Len(q) :
                    evt.maps[j] = [dom |-> "dom", iova |-> q[j].gphys_addr,
                                   paddr |-> q[j].hphys_addr, size |-> q[j].phys_size,
                                   prot |-> {VMM_IOMMU_READ, VMM_IOMMU_WRITE}]
          ELSE evt.maps = <<>>

\* A matching event on an Instance with two lines and a domain, for a guest
\* with one qualifying region and one that does not qualify.
C6_Witness ==
  /\ evt # NoEvt /\ EventIsOurs
  /\ domLive
  /\ Len(evt.h2g) = 2
  /\ Len(evt.regions) = 2
  /\ Len(evt.maps) = 1

\* C7: an event of another kind, or an aspace-init event of another guest,
\* registers no routing, maps nothing, leaves the Instance as it is and is
\* answered NOTIFY_DONE.
C7_OtherEventsIgnored ==
  [][(NotifierEntered /\ ~(evt'.evt = VMM_GUEST_ASPACE_EVENT_INIT /\ evt'.guest = cfg.guest)) =>
       /\ evt'.h2g = <<>>
       /\ evt'.maps = <<>>
       /\ evt'.ret = NOTIFY_DONE
       /\ h2gCount' = h2gCount
       /\ mapCount' = mapCount
       /\ s' = s]_vars

\* An aspace-init event of the other guest reaches an Instance that has lines,
\* a domain and a qualifying region to map.
C7_Witness ==
  /\ evt # NoEvt
  /\ evt.evt = VMM_GUEST_ASPACE_EVENT_INIT /\ evt.guest # cfg.guest
  /\ s.irq_count = 2
  /\ domLive
  /\ \E j \in 1..Len(evt.regions) : Qualifies(evt.regions[j])
  /\ evt.maps = <<>> /\ evt.h2g = <<>>

\* C8: remove on a slot with nothing attached returns VMM_EFAIL and makes no
\* teardown call and no change to any resource; so does a second remove.
C8_RemoveOfNothingFails ==
  [][(pc = "idle" /\ priv = NULL /\ ops' # ops /\ ret'.op = "remove") =>
       /\ ret'.rc = VMM_EFAIL
       /\ calls' = <<>>
       /\ UNCHANGED <<pc, s, priv, heap, routed, handlers, lineType, devRef, domLive,
                      subscribed>>]_vars

\* A remove that failed after an Instance that had been probed, had received an
\* event and had been removed.
C8_Witness ==
  /\ RemoveFailed
  /\ ret.rc = VMM_EFAIL
  /\ priv = NULL
  /\ evCount > 0
  /\ calls = <<>>

Concat == cfg.guest_name \o <<"/">> \o cfg.node_name
NameFits == Len(Concat) + 1 <= NAME_SIZE
TouchesIrq(c) == c.op \in {"set_type", "mark_routed", "register", "unregister", "unmark_routed"}

\* C9: when guest name, "/" and node name do not fit the 64 bytes of s->name
\* with their terminator, probe fails with VMM_EOVERFLOW before an array is
\* allocated and before a host line is touched; when they fit, s->name is
\* their concatenation.
C9_NameOverflowOrConcat ==
  /\ ~NameFits =>
       /\ heap \cap Arrays = {}
       /\ SelectSeq(calls, TouchesIrq) = <<>>
       /\ pc \in {"idle", "p_name", "f_freestate"}
       /\ (pc = "idle" /\ ret.op = "probe") => ret.rc \in {VMM_EOVERFLOW, VMM_ENOMEM}
       /\ pc = "f_freestate" => rc = VMM_EOVERFLOW
  /\ (NameFits /\ s.guest # NULL) => s.name = Concat

\* C10: the device reference is never released more often than acquired, and
\* after a failed probe and after a remove every acquire has its release.
C10_RefBalanced ==
  /\ devRef.rel <= devRef.acq
  /\ (ProbeFailed \/ RemoveOk \/ RemoveFailed) => devRef.acq = devRef.rel

\* A remove that released the reference a successful probe had acquired.
C10_Witness ==
  /\ RemoveOk
  /\ devRef.acq = 1 /\ devRef.rel = 1
  /\ SelectSeq(calls, LAMBDA c : c.op = "dref_device") # <<>>

\* C11: no step of probe (and no step of remove, of the handler or of the fault
\* handler) registers a guest-IRQ routing or maps memory: the counts of both
\* calls are zero until an event has been delivered, and they change only in
\* the step in which the notifier handles an aspace-init event of the owning guest.
C11_DeferredWorkOnlyOnEvent ==
  /\ [](evCount = 0 => (h2gCount = 0 /\ mapCount = 0))
  /\ [][(h2gCount' # h2gCount \/ mapCount' # mapCount) =>
          /\ NotifierEntered
          /\ evt'.evt = VMM_GUEST_ASPACE_EVENT_INIT
          /\ evt'.guest = cfg.guest
          /\ subscribed]_vars

\* A probe of two lines with a domain succeeded, an event that does not match
\* left both counts at zero, and the first matching event issued the calls.
C11_Witness ==
  /\ ProbeOk
  /\ evt # NoEvt /\ EventIsOurs
  /\ evCount = 2
  /\ h2gCount = 2 /\ Len(evt.h2g) = 2
  /\ mapCount > 0 /\ mapCount = Len(evt.maps)

\* C12 as stated: within one Instance lifetime the deferred work is performed
\* once, whatever events are delivered: a matching aspace-init event that
\* reaches the first Instance finds that no routing was registered and no
\* memory mapped before it.
C12_DeferredWorkOnce ==
  [][(ops = 1 /\ NotifierEntered /\ evt'.evt = VMM_GUEST_ASPACE_EVENT_INIT
        /\ evt'.guest = cfg.guest) =>
       (h2gCount = 0 /\ mapCount = 0)]_vars

\* The work one matching event performs: N routings, and one mapping for each
\* qualifying region when there is a domain.
WorkH2g == ConfigCount
WorkMaps(regs) == IF domLive THEN Len(SelectSeq(regs, Qualifies)) ELSE 0

\* C12, amended: every matching aspace-init event performs the deferred work
\* once more (N routing registrations and one mapping per qualifying region),
\* so the work has been performed exactly once when exactly one event, a
\* matching one, has been delivered.
C12_WorkOncePerMatchingEvent ==
  /\ []((evCount = 1 /\ evt # NoEvt /\ EventIsOurs) =>
          (h2gCount = WorkH2g /\ mapCount = WorkMaps(evt.regions)))
  /\ [][(NotifierEntered /\ evt'.evt = VMM_GUEST_ASPACE_EVENT_INIT
           /\ evt'.guest = cfg.guest) =>
          /\ h2gCount' = h2gCount + WorkH2g
          /\ mapCount' = mapCount + WorkMaps(evt'.regions)]_vars

\* A second matching event reached the first Instance, of two lines with a
\* domain, and the routings have been registered twice.
C12_Witness ==
  /\ ops = 1 /\ priv = "s" /\ domLive
  /\ evt # NoEvt /\ EventIsOurs
  /\ evCount = 2
  /\ ConfigCount = 2
  /\ h2gCount = 4
  /\ mapCount > Len(evt.maps)

Instances == {"s", Orphan("s")}

\* C13: whatever probes and removes were called, at most one Instance is
\* allocated; while no call is running an Instance is allocated exactly when
\* one is attached, so none is left after a remove and a probe leaves no
\* earlier Instance allocated next to the new one.
C13_AtMostOneInstance ==
  /\ Cardinality(heap \cap Instances) <= 1
  /\ (pc = "idle" /\ priv = NULL) => heap \cap Instances = {}
  /\ (pc = "idle" /\ priv # NULL) => "s" \in heap

\* C14: a fault on the domain of the Instance halts the guest that owns the
\* Instance and no other guest, whatever address and flags are reported: every
\* step that halts a guest halts just the owning guest, on a live domain, and
\* no other guest is ever halted.
C14_FaultHaltsOwnerOnly ==
  /\ [](halted \subseteq {cfg.guest})
  /\ [][halted' # halted =>
          /\ halted' = halted \cup {cfg.guest}
          /\ s.guest = cfg.guest
          /\ domLive]_vars

\* The domain of an attached Instance of guest g0 faulted: g0 is halted and
\* g1 is not.
C14_Witness ==
  /\ priv = "s" /\ domLive
  /\ cfg.guest = "g0"
  /\ halted = {"g0"}
  /\ "g1" \notin halted

ReadSteps == {"read_host_irq", "read_host_type_irq", "read_guest_irq"}
IsRegisterCall(c) == c.op \in {"set_type", "mark_routed", "register"}

\* C15 as stated: probe reads all N triples before it makes the first call on a host
\* line: while a triple is still to be read, and when the read of a triple has
\* failed at whatever index, this probe has type-set, routed and registered no line.
C15_ReadsBeforeRegisters ==
  /\ pc \in {"p_read_hirq", "p_read_htirq", "p_read_girq"} =>
       SelectSeq(calls, IsRegisterCall) = <<>>
  /\ fail.step \in ReadSteps =>
       /\ SelectSeq(calls, IsRegisterCall) = <<>>
       /\ pc = "f_cleanupirqs" => (routed = {} /\ handlers = {})

RegisterSteps == {"set_type", "mark_routed", "register"}

\* C16: registering one line is all or nothing: when the type-set, the routed
\* claim or the handler install of index k has failed in the first probe, the
\* probe returns the host IRQ subsystem's error and line k is left with no
\* handler, no routed claim and the trigger type it had before.
C16_RegisterAllOrNothing ==
  (ops = 1 /\ fail.step \in RegisterSteps) =>
    LET line == ConfigHostIrq(fail.idx)
    IN /\ line \notin handlers
       /\ line \notin routed
       /\ lineType[line] = 0
       /\ rc = HostIrqErr
       /\ ProbeFailed => ret.rc = HostIrqErr

\* The calls that register the lines of indices 0..k-1, in the order of the loop.
RegisterCallsUpTo(k) ==
  [j \in 1..(3 * k) |->
     LET idx == (j - 1) \div 3
     IN Call(<<"set_type", "mark_routed", "register">>[((j - 1) % 3) + 1], idx,
             ConfigHostIrq(idx))]

FirstLines(k) == {ConfigHostIrq(j) : j \in 0..(k - 1)}

\* C15, amended: probe handles one index after the other, reading the triple
\* of index k and then registering its line before it reads the next triple.
\* While the triple of index k is read, and when that read fails, exactly the
\* lines of indices 0..k-1 have been type-set, routed and given the handler,
\* and no line from index k on has been touched.
C15_ReadsThenRegistersPerIndex ==
  /\ pc \in {"p_read_hirq", "p_read_htirq", "p_read_girq"} =>
       /\ SelectSeq(calls, IsRegisterCall) = RegisterCallsUpTo(i)
       /\ routed = FirstLines(i) /\ handlers = FirstLines(i)
  /\ fail.step \in ReadSteps =>
       /\ SelectSeq(calls, IsRegisterCall) = RegisterCallsUpTo(fail.idx)
       /\ pc = "f_cleanupirqs" =>
            (routed = FirstLines(fail.idx) /\ handlers = FirstLines(fail.idx))

\* The read of the guest line of the second triple failed while the line of
\* the first triple was routed and carried the handler.
C15_Witness ==
  /\ pc = "f_cleanupirqs"
  /\ fail.step = "read_guest_irq" /\ fail.idx = 1
  /\ handlers = {ConfigHostIrq(0)} /\ routed = {ConfigHostIrq(0)}

\* C17 as stated: in every reachable state, the steps inside probe, its
\* rollback and remove included, a host line is routed if and only if the
\* handler is registered on it.
C17_RoutedIffHandler ==
  \A l \in Lines : l \in routed <=> l \in handlers

\* C17, amended: a line that carries the handler is always routed.  A line is
\* routed without the handler only between the two calls that toggle the pair:
\* in probe after mark_routed and before register, in the rollback and in
\* remove after unregister and before unmark_routed; it is then the one line of
\* the index at hand.  In every other state routed and registered lines coincide.
C17_HandlerImpliesRouted ==
  /\ handlers \subseteq routed
  /\ pc \in {"p_register", "f_unmark", "r_unmark"} =>
       routed \ handlers = {s.host_irqs[i + 1]}
  /\ pc \notin {"p_register", "f_unmark", "r_unmark"} => routed = handlers

\* Inside remove the handler of the second line is gone and its routed claim
\* is still held.
C17_Witness ==
  /\ pc = "r_unmark" /\ i = 1
  /\ routed = {ConfigHostIrq(1)}
  /\ handlers = {}

RemovePcs == {"r_free_dom", "r_dref_dev", "r_unregister", "r_unmark",
              "r_free_girqs", "r_free_htirqs", "r_free_hirqs", "r_free_state"}

\* The per-index teardown of the lines of indices 0..k-1: handler, then claim.
RECURSIVE UnregisterCalls(_)
UnregisterCalls(k) ==
  IF k = 0 THEN <<>>
  ELSE UnregisterCalls(k - 1)
       \o <<Call("unregister", k - 1, ConfigHostIrq(k - 1)),
            Call("unmark_routed", k - 1, ConfigHostIrq(k - 1))>>

IsArrayFree(c) == c.op \in {"free_guest_irqs", "free_host_type_irqs", "free_host_irqs"}

\* C18: a remove of an attached Instance makes these calls in this order:
\* unsubscribe; free the domain if there is one; release the device if there
\* is one; for every index unregister the handler, then release the routed
\* claim; free the three arrays; free the Instance; and it clears edev->priv
\* last.  No array and no Instance is freed while a handler is registered, and
\* a handler invocation always finds the Instance and its arrays allocated.
C18_RemoveTeardownOrder ==
  /\ RemoveOk =>
       LET n == Len(calls)
           head == <<Call("unregister_client", -1, -1)>>
                   \o (IF cfg.iommu = "ok"
                       THEN <<Call("domain_free", -1, -1), Call("dref_device", -1, -1)>>
                       ELSE <<>>)
                   \o UnregisterCalls(ConfigCount)
           frees == SubSeq(calls, Len(head) + 1, n - 1)
       IN /\ n > Len(head)
          /\ SubSeq(calls, 1, Len(head)) = head
          /\ Len(frees) = (IF ConfigCount > 0 THEN 3 ELSE 0)
          /\ \A j \in 1..Len(frees) : IsArrayFree(frees[j])
          /\ \A j, k \in 1..Len(frees) : j # k => frees[j] # frees[k]
          /\ calls[n] = Call("free_state", -1, -1)
          /\ priv = NULL
          /\ heap = {} /\ ~subscribed /\ ~domLive
  /\ pc \in RemovePcs =>
       /\ priv = "s" /\ "s" \in heap
       /\ handlers # {} => (ConfigCount > 0 => Arrays \subseteq heap)
       /\ SelectSeq(calls, IsArrayFree) # <<>> => handlers = {}
  /\ hirq # NoIrq => ("s" \in heap /\ (s.irq_count > 0 => Arrays \subseteq heap))

\* A remove of an Instance with two lines, a device and a domain has returned
\* after its eleven calls.
C18_Witness ==
  /\ RemoveOk
  /\ ConfigCount = 2
  /\ cfg.iommu = "ok"
  /\ Len(calls) = 11

\* The calls of probe that have an undo, and the undo of each.
DoOps == {"zalloc_state", "zalloc_host_irqs", "zalloc_host_type_irqs", "zalloc_guest_irqs",
          "mark_routed", "register", "ref_device", "domain_alloc", "register_client"}
UndoOps == {"free_state", "free_host_irqs", "free_host_type_irqs", "free_guest_irqs",
            "unmark_routed", "unregister", "dref_device", "domain_free", "unregister_client"}
IsDoCall(c) == c.op \in DoOps
IsUndoCall(c) == c.op \in UndoOps

UndoOf(c) ==
  [c EXCEPT !.op =
     CASE c.op = "zalloc_state" -> "free_state"
       [] c.op = "zalloc_host_irqs" -> "free_host_irqs"
       [] c.op = "zalloc_host_type_irqs" -> "free_host_type_irqs"
       [] c.op = "zalloc_guest_irqs" -> "free_guest_irqs"
       [] c.op = "mark_routed" -> "unmark_routed"
       [] c.op = "register" -> "unregister"
       [] c.op = "ref_device" -> "dref_device"
       [] c.op = "domain_alloc" -> "domain_free"
       [] OTHER -> "unregister_client"]

Reverse(q) == [j \in 1..Len(q) |-> q[Len(q) + 1 - j]]

\* C19 as stated: when probe fails, the undo calls it makes are the undos of the
\* calls that completed, most recent first.
C19_RollbackMostRecentFirst ==
  (ProbeFailed /\ fail.step # "zalloc_state") =>
    LET dos == SelectSeq(calls, IsDoCall)
    IN SelectSeq(calls, IsUndoCall) = Reverse([j \in 1..Len(dos) |-> UndoOf(dos[j])])

Did(op) == \E j \in 1..Len(calls) : calls[j].op = op
Registered == Len(SelectSeq(calls, LAMBDA c : c.op = "register"))
OneIf(done, op) == IF done THEN <<Call(op, -1, -1)>> ELSE <<>>

\* What remove calls for the configured node, in order.
RemoveCalls ==
  <<Call("unregister_client", -1, -1)>>
  \o OneIf(cfg.iommu = "ok", "domain_free")
  \o OneIf(cfg.iommu = "ok", "dref_device")
  \o UnregisterCalls(ConfigCount)
  \o OneIf(ConfigCount > 0, "free_guest_irqs")
  \o OneIf(ConfigCount > 0, "free_host_type_irqs")
  \o OneIf(ConfigCount > 0, "free_host_irqs")
  \o <<Call("free_state", -1, -1)>>

\* C19, amended: when probe fails, the stages that completed are undone in the
\* reverse order of the stages (domain, device reference, host lines, arrays,
\* Instance) and nothing is undone that was not done; the host lines that were
\* registered are undone in ascending index order, each handler before its
\* routed claim, a line whose handler install failed has given back its claim
\* at once, and a trigger type that was set is not undone.  The order is that
\* of remove: after a failed subscription the rollback is remove's sequence
\* without the unsubscribe.
C19_RollbackByStage ==
  (ProbeFailed /\ fail.step # "zalloc_state") =>
    /\ SelectSeq(calls, IsUndoCall) =
         (IF fail.step = "register"
          THEN <<Call("unmark_routed", fail.idx, ConfigHostIrq(fail.idx))>> ELSE <<>>)
         \o OneIf(Did("domain_alloc"), "domain_free")
         \o OneIf(Did("ref_device"), "dref_device")
         \o UnregisterCalls(Registered)
         \o OneIf(Did("zalloc_guest_irqs"), "free_guest_irqs")
         \o OneIf(Did("zalloc_host_type_irqs"), "free_host_type_irqs")
         \o OneIf(Did("zalloc_host_irqs"), "free_host_irqs")
         \o <<Call("free_state", -1, -1)>>
    /\ fail.step = "register_client" => SelectSeq(calls, IsUndoCall) = Tail(RemoveCalls)
    /\ Did("set_type") => lineType[ConfigHostIrq(0)] # 0

\* The domain allocation failed after two lines were registered: nine undo calls.
C19_Witness ==
  /\ ProbeFailed
  /\ fail.step = "domain_alloc"
  /\ Registered = 2
  /\ Len(SelectSeq(calls, IsUndoCall)) = 9

\* A map call is issued in this step / by the invocation that runs beside the
\* lifecycle thread.
MapIssued == mapCount' # mapCount
IterMapIssued == MapIssued /\ iter'.next # iter.next

\* C20 as stated: however a notifier invocation for a matching event and a
\* remove interleave, no map call is issued after remove has freed the domain
\* and the Instance is not read after it is freed.
C20_MapsSerializedWithFree ==
  /\ [](~uaf)
  /\ [][MapIssued => (domLive /\ "s" \in heap)]_vars

\* C20, amended: no notifier invocation starts once remove has unsubscribed,
\* and remove unsubscribes before it frees the domain and the Instance: while
\* the notifier block is on the chain the Instance is allocated and its domain,
\* if it has one, is live.  So an invocation during which no remove (and no
\* probe) is called issues every map call on the live domain of an allocated
\* Instance; only an invocation already running when remove is called can map
\* after the domain-free, which the caller has to exclude.
C20_MapsSerializedUnlessOverlapped ==
  /\ [](subscribed => /\ "s" \in heap
                      /\ s.dom # NULL => domLive
                      /\ pc \notin RemovePcs)
  /\ [][(IterMapIssued /\ iter.ops = ops) => (domLive /\ "s" \in heap)]_vars
  /\ [][(MapIssued /\ ~IterMapIssued) => (domLive /\ "s" \in heap)]_vars
  /\ [][(iter = NoIter /\ iter' # NoIter) => (domLive /\ "s" \in heap /\ iter'.ops = ops)]_vars

\* An invocation that has mapped one of its two regions is overtaken by a
\* remove that has freed the domain.
C20_Witness ==
  /\ iter.next = 2 /\ Len(iter.regions) = 2
  /\ iter.ops < ops
  /\ pc \in RemovePcs
  /\ ~domLive
  /\ mapCount = 1

====
